---- MODULE Spec2Model ----
(***************************************************************************)
(* QR-code attendance server (qr_attendance_system/main.py).               *)
(*                                                                         *)
(* The Flask handlers are modelled as request threads over the module's    *)
(* three dictionaries.  Each thread step is one access to shared state     *)
(* (a dictionary, a list, the clock), so that the interleavings of the     *)
(* threaded server are those of the model.  Spec lets NumThreads requests  *)
(* overlap; SeqSpec runs the same steps with one request in flight at a    *)
(* time.  The clock may advance between any two steps in both.             *)
(*                                                                         *)
(* Time is counted in seconds since midnight of day 0.                     *)
(***************************************************************************)
EXTENDS Integers, Sequences, FiniteSets, TLC

\* ---------------------------------------------------------------- bounds
NumThreads == 2
MaxJitter == 1
MaxWindows == 1
MaxRequests == 4
MaxRaceRequests == 3

\* ------------------------------------------------------ program constants
ScanLimit == 1
ScanWindow == 30 * 60
NextAllowedDelta == 30 * 60
QrValidity == 30 * 60
DayLen == 24 * 60 * 60

\* ----------------------------------------------------------------- inputs
None == "None"
Students == {"S1", "S2"}
Names == {"Alice"}
Methods == {"qr", "manual"}
Clients == {"c1", "c2"}
RaceStudents == {"S1", "S2"}
RaceClients == {"c1"}
QrIds == {"q1"}
Bogus == "bogus"
Threads == 1..NumThreads

StartTime == DayLen - ScanWindow
TimePoints ==
    {StartTime + k * ScanWindow + j : k \in 0..MaxWindows, j \in 0..MaxJitter}

VARIABLES
    now,                \* datetime.now()
    attendance_records, \* date -> list of records
    valid_qr_codes,     \* qr id -> qr_data
    scan_history,       \* client ip -> list of scan times
    req,                \* thread -> the locals of the request it is handling
    issued,             \* the ids uuid4 has returned so far
    last_success,       \* client ip -> <<time of its last recorded scan>>
    denied_until,       \* client ip -> <<next_allowed_time reported since its last scan>>
    started             \* number of requests received

vars ==
    <<now, attendance_records, valid_qr_codes, scan_history, req, issued,
      last_success, denied_until, started>>

\* ---------------------------------------------------------------- helpers
get_current_dateFixed(t) == 0

get_current_date(t) == t \div DayLen

strftime_time(t) == t % DayLen

isoformat(t) == <<t \div DayLen, t % DayLen>>

fromisoformat(s) == s[1] * DayLen + s[2]

Falsy(x) == x = None

PruneInclusive(lst, current_time) ==
    LET cutoff_time == current_time - ScanWindow
        Keep(scan_time) == scan_time >= cutoff_time
    IN  SelectSeq(lst, Keep)

Prune(lst, current_time) ==
    LET cutoff_time == current_time - ScanWindow
        Keep(scan_time) == scan_time > cutoff_time
    IN  SelectSeq(lst, Keep)

OverLimitStrict(lst) == Len(lst) > ScanLimit

OverLimit(lst) == Len(lst) >= ScanLimit

NextAllowed(lst) == lst[1] + NextAllowedDelta

IsExpiredInclusive(qr_data, t) == fromisoformat(qr_data.expiry) <= t

IsExpired(qr_data, t) == fromisoformat(qr_data.expiry) < t

HasRecordByName(records, student_id) ==
    \E i \in 1..Len(records) : records[i].studentName = student_id

HasRecord(records, student_id) ==
    \E i \in 1..Len(records) : records[i].studentId = student_id

NeedsQrValidationAnyMethod(method, qr_id) == ~Falsy(qr_id)

NeedsQrValidationNever(method, qr_id) == method = "QR" /\ ~Falsy(qr_id)

NeedsQrValidation(method, qr_id) == method = "qr" /\ ~Falsy(qr_id)

MissingApi(student_id, student_name, method) ==
    Falsy(student_id) \/ Falsy(student_name) \/ Falsy(method)

MissingForm(student_id, student_name) ==
    Falsy(student_id) \/ Falsy(student_name)

NewRecord(t, student_id, student_name, method) ==
    [time |-> strftime_time(t), studentId |-> student_id,
     studentName |-> student_name, status |-> "Present", method |-> method]

Idle == [pc |-> "idle", handler |-> "none"]

Goto(th, pc) == req' = [req EXCEPT ![th] = [pc |-> pc] @@ req[th]]

GotoWith(th, pc, upd) == req' = [req EXCEPT ![th] = [pc |-> pc] @@ upd @@ req[th]]

Finish(th, result) ==
    req' = [req EXCEPT ![th] = [pc |-> "done", result |-> result] @@ req[th]]

FinishWith(th, result, upd) ==
    req' = [req EXCEPT ![th] = [pc |-> "done", result |-> result] @@ upd @@ req[th]]

At(th, pc) == req[th].pc = pc

Init ==
    /\ now = StartTime
    /\ attendance_records = << >>
    /\ valid_qr_codes = << >>
    /\ scan_history = << >>
    /\ req = [th \in Threads |-> Idle]
    /\ issued = {}
    /\ last_success = [c \in Clients |-> << >>]
    /\ denied_until = [c \in Clients |-> << >>]
    /\ started = 0

\* The clock moves forward.
Tick ==
    /\ \E t \in TimePoints : t > now /\ now' = t
    /\ UNCHANGED <<attendance_records, valid_qr_codes, scan_history, req,
                   issued, last_success, denied_until, started>>

\* The response has been sent; the thread is free again.
Return(th) ==
    /\ At(th, "done")
    /\ req' = [req EXCEPT ![th] = Idle]
    /\ UNCHANGED <<now, attendance_records, valid_qr_codes, scan_history,
                   issued, last_success, denied_until, started>>

\* ------------------------------------------------------------- dictionaries
Put(d, k, v) == [x \in DOMAIN d \cup {k} |-> IF x = k THEN v ELSE d[x]]

Del(d, k) == [x \in DOMAIN d \ {k} |-> d[x]]

Append2Front(d, k, v) == [d EXCEPT ![k] = <<v>> \o @]

Append2(d, k, v) == [d EXCEPT ![k] = Append(@, v)]

\* A request is taken by the first free thread of the pool.
CanBegin(th) ==
    /\ At(th, "idle")
    /\ \A u \in Threads : u < th => ~At(u, "idle")
    /\ started < MaxRequests

\* ------------------------------------------------- POST /api/generate_qr
QrData(qr_id, timestamp, t) ==
    [id |-> qr_id, timestamp |-> timestamp, expiry |-> isoformat(t + QrValidity)]

\* uuid4() and the first datetime.now() of the dictionary literal.
GenBegin(th) ==
    /\ CanBegin(th)
    /\ \E qr_id \in QrIds \ issued :
         /\ issued' = issued \cup {qr_id}
         /\ req' = [req EXCEPT ![th] =
                      [pc |-> "gen_store", handler |-> "gen", qr_id |-> qr_id,
                       timestamp |-> isoformat(now)]]
    /\ started' = started + 1
    /\ UNCHANGED <<now, attendance_records, valid_qr_codes, scan_history,
                   last_success, denied_until>>

\* The second datetime.now(), then valid_qr_codes[qr_id] = qr_data.
GenStore(th) ==
    /\ At(th, "gen_store")
    /\ LET qr_data == QrData(req[th].qr_id, req[th].timestamp, now)
       IN  /\ valid_qr_codes' = Put(valid_qr_codes, req[th].qr_id, qr_data)
           /\ FinishWith(th, "Issued", [qr_data |-> qr_data])
    /\ UNCHANGED <<now, attendance_records, scan_history, issued,
                   last_success, denied_until, started>>

\* ------------------------------------------------------- POST /api/attend
\* request.json is read, the required fields are checked, today is computed.
ApiRequest(th, student_ids, student_names, methods, qr_ids) ==
    /\ CanBegin(th)
    /\ \E student_id \in student_ids, student_name \in student_names,
          method \in methods, qr_id \in qr_ids :
         LET r == [handler |-> "api", student_id |-> student_id,
                   student_name |-> student_name, method |-> method,
                   qr_id |-> qr_id]
         IN  req' = [req EXCEPT ![th] =
                 IF MissingApi(student_id, student_name, method)
                 THEN [pc |-> "done", result |-> "InvalidInput"] @@ r
                 ELSE [pc |-> "api_partition",
                       today |-> get_current_date(now)] @@ r]
    /\ started' = started + 1
    /\ UNCHANGED <<now, attendance_records, valid_qr_codes, scan_history,
                   issued, last_success, denied_until>>

\* if today not in attendance_records
ApiPartition(th) ==
    /\ At(th, "api_partition")
    /\ IF req[th].today \in DOMAIN attendance_records
       THEN Goto(th, "api_dup")
       ELSE Goto(th, "api_mkpart")
    /\ UNCHANGED <<now, attendance_records, valid_qr_codes, scan_history,
                   issued, last_success, denied_until, started>>

\* attendance_records[today] = []
ApiMkPart(th) ==
    /\ At(th, "api_mkpart")
    /\ attendance_records' = Put(attendance_records, req[th].today, << >>)
    /\ Goto(th, "api_dup")
    /\ UNCHANGED <<now, valid_qr_codes, scan_history, issued, last_success,
                   denied_until, started>>

\* if any(record['studentId'] == student_id ...): 409
ApiDup(th) ==
    /\ At(th, "api_dup")
    /\ IF HasRecord(attendance_records[req[th].today], req[th].student_id)
       THEN Finish(th, "DuplicateCheckIn")
       ELSE Goto(th, "api_qr")
    /\ UNCHANGED <<now, attendance_records, valid_qr_codes, scan_history,
                   issued, last_success, denied_until, started>>

\* if method == 'qr' and qr_id: if qr_id not in valid_qr_codes: 403
ApiQr(th) ==
    /\ At(th, "api_qr")
    /\ IF ~NeedsQrValidation(req[th].method, req[th].qr_id)
       THEN Goto(th, "api_append")
       ELSE IF req[th].qr_id \notin DOMAIN valid_qr_codes
            THEN Finish(th, "InvalidToken")
            ELSE Goto(th, "api_fetch")
    /\ UNCHANGED <<now, attendance_records, valid_qr_codes, scan_history,
                   issued, last_success, denied_until, started>>

\* qr_data = valid_qr_codes[qr_id]; the expiry is compared with datetime.now().
\* A KeyError is caught by the handler's except clause: 500.
ApiFetch(th) ==
    /\ At(th, "api_fetch")
    /\ IF req[th].qr_id \notin DOMAIN valid_qr_codes
       THEN FinishWith(th, "ServerError", [exc |-> "KeyError"])
       ELSE LET qr_data == valid_qr_codes[req[th].qr_id]
                upd == [qr_data |-> qr_data, checked_at |-> now]
            IN  IF IsExpired(qr_data, now)
                THEN GotoWith(th, "api_del", upd)
                ELSE GotoWith(th, "api_append", upd)
    /\ UNCHANGED <<now, attendance_records, valid_qr_codes, scan_history,
                   issued, last_success, denied_until, started>>

\* del valid_qr_codes[qr_id]: 403
ApiDel(th) ==
    /\ At(th, "api_del")
    /\ IF req[th].qr_id \notin DOMAIN valid_qr_codes
       THEN /\ FinishWith(th, "ServerError", [exc |-> "KeyError"])
            /\ UNCHANGED valid_qr_codes
       ELSE /\ valid_qr_codes' = Del(valid_qr_codes, req[th].qr_id)
            /\ Finish(th, "TokenExpired")
    /\ UNCHANGED <<now, attendance_records, scan_history, issued,
                   last_success, denied_until, started>>

ApiAppendConsume(th) ==
    /\ At(th, "api_append")
    /\ LET new_record == NewRecord(now, req[th].student_id, req[th].student_name,
                                   req[th].method)
       IN  /\ attendance_records' =
                 Append2(attendance_records, req[th].today, new_record)
           /\ valid_qr_codes' = Del(valid_qr_codes, req[th].qr_id)
           /\ FinishWith(th, "Success", [record |-> new_record])
    /\ UNCHANGED <<now, scan_history, issued, last_success, denied_until, started>>

\* new_record is built and appended to attendance_records[today].
ApiAppend(th) ==
    /\ At(th, "api_append")
    /\ LET new_record == NewRecord(now, req[th].student_id, req[th].student_name,
                                   req[th].method)
       IN  /\ attendance_records' =
                 Append2(attendance_records, req[th].today, new_record)
           /\ FinishWith(th, "Success", [record |-> new_record])
    /\ UNCHANGED <<now, valid_qr_codes, scan_history, issued, last_success,
                   denied_until, started>>


\* ------------------------------------------------------- check_scan_limit
\* if client_ip not in scan_history
CslIn(th) ==
    /\ At(th, "csl_in")
    /\ IF req[th].client_ip \in DOMAIN scan_history
       THEN Goto(th, "csl_read")
       ELSE Goto(th, "csl_init")
    /\ UNCHANGED <<now, attendance_records, valid_qr_codes, scan_history,
                   issued, last_success, denied_until, started>>

\* scan_history[client_ip] = []
CslInit(th) ==
    /\ At(th, "csl_init")
    /\ scan_history' = Put(scan_history, req[th].client_ip, << >>)
    /\ Goto(th, "csl_read")
    /\ UNCHANGED <<now, attendance_records, valid_qr_codes, issued,
                   last_success, denied_until, started>>

\* The list comprehension reads scan_history[client_ip].
CslRead(th) ==
    /\ At(th, "csl_read")
    /\ GotoWith(th, "csl_write",
                [pruned |-> Prune(scan_history[req[th].client_ip],
                                  req[th].current_time)])
    /\ UNCHANGED <<now, attendance_records, valid_qr_codes, scan_history,
                   issued, last_success, denied_until, started>>

\* scan_history[client_ip] = [...]
CslWrite(th) ==
    /\ At(th, "csl_write")
    /\ scan_history' = [scan_history EXCEPT ![req[th].client_ip] = req[th].pruned]
    /\ Goto(th, "csl_len")
    /\ UNCHANGED <<now, attendance_records, valid_qr_codes, issued,
                   last_success, denied_until, started>>

\* if len(scan_history[client_ip]) >= 1; on return True the caller goes on.
CslLen(th) ==
    /\ At(th, "csl_len")
    /\ IF OverLimit(scan_history[req[th].client_ip])
       THEN Goto(th, "csl_deny")
       ELSE GotoWith(th, IF req[th].handler = "form" THEN "form_qr" ELSE "quota_len",
                     [can_scan |-> TRUE])
    /\ UNCHANGED <<now, attendance_records, valid_qr_codes, scan_history,
                   issued, last_success, denied_until, started>>

CslDenyIgnored(th) ==
    /\ At(th, "csl_deny")
    /\ LET lst == scan_history[req[th].client_ip]
           next_allowed_time == NextAllowed(lst)
       IN  /\ lst # << >>
           /\ GotoWith(th, IF req[th].handler = "form" THEN "form_qr" ELSE "quota_len",
                       [can_scan |-> FALSE, next_allowed_time |-> next_allowed_time,
                        message |-> strftime_time(next_allowed_time)])
    /\ UNCHANGED <<now, attendance_records, valid_qr_codes, scan_history,
                   issued, last_success, denied_until, started>>

\* next_allowed_time = scan_history[client_ip][0] + 30 min; return False, message.
\* attend_form then answers with the message.  An IndexError is not caught.
CslDeny(th) ==
    /\ At(th, "csl_deny")
    /\ LET lst == scan_history[req[th].client_ip] IN
       IF lst = << >>
       THEN /\ FinishWith(th, "ServerError", [exc |-> "IndexError"])
            /\ UNCHANGED denied_until
       ELSE LET next_allowed_time == NextAllowed(lst)
                upd == [can_scan |-> FALSE,
                        next_allowed_time |-> next_allowed_time,
                        message |-> strftime_time(next_allowed_time)]
            IN  IF req[th].handler = "form"
                THEN /\ FinishWith(th, "RateLimited", upd)
                     /\ denied_until' = [denied_until EXCEPT
                            ![req[th].client_ip] = <<next_allowed_time>>]
                ELSE /\ GotoWith(th, "quota_len", upd)
                     /\ UNCHANGED denied_until
    /\ UNCHANGED <<now, attendance_records, valid_qr_codes, scan_history,
                   issued, last_success, started>>

\* ------------------------------------------------------------ POST /attend
\* The form is posted; check_scan_limit reads the clock.
FormRequest(th, client_ips, qr_ids) ==
    /\ CanBegin(th)
    /\ \E client_ip \in client_ips, qr_id \in qr_ids :
         req' = [req EXCEPT ![th] =
                   [pc |-> "csl_in", handler |-> "form", client_ip |-> client_ip,
                    method |-> "qr", qr_id |-> qr_id, current_time |-> now]]
    /\ started' = started + 1
    /\ UNCHANGED <<now, attendance_records, valid_qr_codes, scan_history,
                   issued, last_success, denied_until>>

\* request.form is read: if not student_id or not student_name ...
\* elif qr_id not in valid_qr_codes
FormQr(th, student_ids, student_names) ==
    /\ At(th, "form_qr")
    /\ \E student_id \in student_ids, student_name \in student_names :
         LET upd == [student_id |-> student_id, student_name |-> student_name]
         IN  IF MissingForm(student_id, student_name)
             THEN FinishWith(th, "InvalidInput", upd)
             ELSE IF req[th].qr_id \notin DOMAIN valid_qr_codes
                  THEN FinishWith(th, "InvalidToken", upd)
                  ELSE GotoWith(th, "form_fetch", upd)
    /\ UNCHANGED <<now, attendance_records, valid_qr_codes, scan_history,
                   issued, last_success, denied_until, started>>

\* qr_data = valid_qr_codes[qr_id]; the expiry is compared with datetime.now().
\* A KeyError is not caught: the server answers 500.
FormFetch(th) ==
    /\ At(th, "form_fetch")
    /\ IF req[th].qr_id \notin DOMAIN valid_qr_codes
       THEN FinishWith(th, "ServerError", [exc |-> "KeyError"])
       ELSE LET qr_data == valid_qr_codes[req[th].qr_id]
                upd == [qr_data |-> qr_data, checked_at |-> now]
            IN  IF IsExpired(qr_data, now)
                THEN GotoWith(th, "form_del", upd)
                ELSE GotoWith(th, "form_today", upd)
    /\ UNCHANGED <<now, attendance_records, valid_qr_codes, scan_history,
                   issued, last_success, denied_until, started>>

\* del valid_qr_codes[qr_id]
FormDel(th) ==
    /\ At(th, "form_del")
    /\ IF req[th].qr_id \notin DOMAIN valid_qr_codes
       THEN /\ FinishWith(th, "ServerError", [exc |-> "KeyError"])
            /\ UNCHANGED valid_qr_codes
       ELSE /\ valid_qr_codes' = Del(valid_qr_codes, req[th].qr_id)
            /\ Finish(th, "TokenExpired")
    /\ UNCHANGED <<now, attendance_records, scan_history, issued,
                   last_success, denied_until, started>>

\* today = get_current_date(); if today not in attendance_records
FormToday(th) ==
    /\ At(th, "form_today")
    /\ LET today == get_current_date(now) IN
       IF today \in DOMAIN attendance_records
       THEN GotoWith(th, "form_dup", [today |-> today])
       ELSE GotoWith(th, "form_mkpart", [today |-> today])
    /\ UNCHANGED <<now, attendance_records, valid_qr_codes, scan_history,
                   issued, last_success, denied_until, started>>

\* attendance_records[today] = []
FormMkPart(th) ==
    /\ At(th, "form_mkpart")
    /\ attendance_records' = Put(attendance_records, req[th].today, << >>)
    /\ Goto(th, "form_dup")
    /\ UNCHANGED <<now, valid_qr_codes, scan_history, issued, last_success,
                   denied_until, started>>

FormDupScan(th) ==
    /\ At(th, "form_dup")
    /\ IF HasRecord(attendance_records[req[th].today], req[th].student_id)
       THEN Goto(th, "form_scan")
       ELSE Goto(th, "form_append")
    /\ UNCHANGED <<now, attendance_records, valid_qr_codes, scan_history,
                   issued, last_success, denied_until, started>>

\* if any(record['studentId'] == student_id ...)
FormDup(th) ==
    /\ At(th, "form_dup")
    /\ IF HasRecord(attendance_records[req[th].today], req[th].student_id)
       THEN Finish(th, "DuplicateCheckIn")
       ELSE Goto(th, "form_append")
    /\ UNCHANGED <<now, attendance_records, valid_qr_codes, scan_history,
                   issued, last_success, denied_until, started>>

\* new_record is built and appended to attendance_records[today].
FormAppend(th) ==
    /\ At(th, "form_append")
    /\ LET new_record == NewRecord(now, req[th].student_id, req[th].student_name,
                                   "qr")
       IN  /\ attendance_records' =
                 Append2(attendance_records, req[th].today, new_record)
           /\ GotoWith(th, "form_scan", [record |-> new_record])
    /\ UNCHANGED <<now, valid_qr_codes, scan_history, issued, last_success,
                   denied_until, started>>

\* record_scan_attempt(client_ip): the scan time is appended.
FormScan(th) ==
    /\ At(th, "form_scan")
    /\ LET client_ip == req[th].client_ip
           current_time == now
       IN  /\ scan_history' =
                 IF client_ip \in DOMAIN scan_history
                 THEN Append2(scan_history, client_ip, current_time)
                 ELSE Put(scan_history, client_ip, <<current_time>>)
           /\ last_success' = [last_success EXCEPT ![client_ip] = <<current_time>>]
           /\ denied_until' = [denied_until EXCEPT ![client_ip] = << >>]
           /\ FinishWith(th, "Success", [scanned_at |-> current_time])
    /\ UNCHANGED <<now, attendance_records, valid_qr_codes, issued, started>>


\* ------------------------------------------------ GET /api/check_scan_limit
QuotaRequest(th, client_ips) ==
    /\ CanBegin(th)
    /\ \E client_ip \in client_ips :
         req' = [req EXCEPT ![th] =
                   [pc |-> "csl_in", handler |-> "quota", client_ip |-> client_ip,
                    current_time |-> now]]
    /\ started' = started + 1
    /\ UNCHANGED <<now, attendance_records, valid_qr_codes, scan_history,
                   issued, last_success, denied_until>>

DictGet(d, k, default) == IF k \in DOMAIN d THEN d[k] ELSE default

\* remaining_scans = 1 - len(scan_history.get(client_ip, []))
QuotaLen(th) ==
    /\ At(th, "quota_len")
    /\ GotoWith(th, "quota_reset",
                [remaining_scans |->
                    1 - Len(DictGet(scan_history, req[th].client_ip, << >>))])
    /\ UNCHANGED <<now, attendance_records, valid_qr_codes, scan_history,
                   issued, last_success, denied_until, started>>

\* ... if scan_history.get(client_ip) else None
QuotaReset(th) ==
    /\ At(th, "quota_reset")
    /\ IF DictGet(scan_history, req[th].client_ip, << >>) # << >>
       THEN Goto(th, "quota_reset_read")
       ELSE FinishWith(th, "Quota", [reset_time |-> None])
    /\ UNCHANGED <<now, attendance_records, valid_qr_codes, scan_history,
                   issued, last_success, denied_until, started>>

\* (scan_history[client_ip][0] + timedelta(minutes=30)).isoformat()
QuotaResetRead(th) ==
    /\ At(th, "quota_reset_read")
    /\ LET lst == scan_history[req[th].client_ip] IN
       IF lst = << >>
       THEN FinishWith(th, "ServerError", [exc |-> "IndexError"])
       ELSE FinishWith(th, "Quota", [reset_time |-> isoformat(NextAllowed(lst))])
    /\ UNCHANGED <<now, attendance_records, valid_qr_codes, scan_history,
                   issued, last_success, denied_until, started>>

\* ------------------------------------------------------ GET /api/attendance
get_attendance(th) ==
    /\ CanBegin(th)
    /\ LET today == get_current_date(now) IN
       req' = [req EXCEPT ![th] =
                 [pc |-> "done", handler |-> "list", today |-> today,
                  result |-> "Listed",
                  records |-> DictGet(attendance_records, today, << >>)]]
    /\ started' = started + 1
    /\ UNCHANGED <<now, attendance_records, valid_qr_codes, scan_history,
                   issued, last_success, denied_until>>

\* ------------------------------------------------------------ specification
Step(th) ==
    \/ GenStore(th)
    \/ ApiPartition(th) \/ ApiMkPart(th) \/ ApiDup(th) \/ ApiQr(th)
    \/ ApiFetch(th) \/ ApiDel(th) \/ ApiAppend(th)
    \/ CslIn(th) \/ CslInit(th) \/ CslRead(th) \/ CslWrite(th)
    \/ CslLen(th) \/ CslDeny(th)
    \/ FormFetch(th) \/ FormDel(th) \/ FormToday(th)
    \/ FormMkPart(th) \/ FormDup(th) \/ FormAppend(th) \/ FormScan(th)
    \/ QuotaLen(th) \/ QuotaReset(th) \/ QuotaResetRead(th)

AllIdle == \A th \in Threads : At(th, "idle")

Responding == \E th \in Threads : At(th, "done")

\* Any request, with any of its fields missing.
Begin(th) ==
    \/ GenBegin(th)
    \/ ApiRequest(th, Students \cup {None}, Names \cup {None},
                  Methods \cup {None}, QrIds \cup {Bogus, None})
    \/ FormRequest(th, Clients, QrIds \cup {Bogus, None})
    \/ QuotaRequest(th, Clients)
    \/ get_attendance(th)

\* One request is handled at a time; a finished request is answered before
\* anything else happens.
NextSeq ==
    IF Responding
    THEN \E th \in Threads : Return(th)
    ELSE \/ Tick
         \/ \E th \in Threads :
              \/ Step(th)
              \/ FormQr(th, Students \cup {None}, Names \cup {None})
              \/ AllIdle /\ Begin(th)

SeqSpec == Init /\ [][NextSeq]_vars

\* The requests of the threaded server: they overlap.  Their required fields
\* are present and their qr id is absent or one uuid4 returned (a request
\* without the fields, or with an unknown id, writes nothing the others read
\* that these requests do not write too).
RaceBegin(th) ==
    \/ GenBegin(th)
    \/ ApiRequest(th, RaceStudents, Names, Methods, QrIds \cup {None})
    \/ FormRequest(th, RaceClients, QrIds \cup {None})
    \/ QuotaRequest(th, RaceClients)
    \/ get_attendance(th)

Next ==
    IF Responding
    THEN \E th \in Threads : Return(th)
    ELSE \/ Tick
         \/ \E th \in Threads :
              \/ Step(th)
              \/ FormQr(th, RaceStudents, Names)
              \/ started < MaxRaceRequests /\ RaceBegin(th)

Spec == Init /\ [][Next]_vars

\* ------------------------------------------------------------------ claims
Done(th) == At(th, "done")

CheckIn(th) == req[th].handler \in {"api", "form"}

CountFor(records, student_id) ==
    Cardinality({i \in 1..Len(records) : records[i].studentId = student_id})

\* C1: whatever check-in requests are handled one after another, each day's
\* list of attendance_records holds at most one record per studentId.
C1_LedgerUnique ==
    \A d \in DOMAIN attendance_records :
        \A i, j \in 1..Len(attendance_records[d]) :
            attendance_records[d][i].studentId = attendance_records[d][j].studentId
                => i = j

\* A second check-in of a recorded student was refused while the day's list
\* holds the records of two students.
C1_Witness ==
    \E th \in Threads : \E d \in DOMAIN attendance_records :
        /\ Done(th) /\ CheckIn(th)
        /\ req[th].result = "DuplicateCheckIn"
        /\ Len(attendance_records[d]) = 2

\* C2: of the overlapping check-ins of one student on one day only one
\* succeeds: a request that has appended its record finds no other record of
\* its student in that day's list.
C2_OneSucceeds ==
    \A th \in Threads :
        (req[th].pc \in {"form_scan", "done"} /\ "record" \in DOMAIN req[th])
            => CountFor(attendance_records[req[th].today], req[th].student_id) <= 1

C4_Denied ==
    \A th \in Threads :
        LET r == req[th] IN
        (Done(th) /\ r.handler = "form") =>
            LET last == last_success[r.client_ip] IN
            /\ r.result = "RateLimited" =>
                  /\ last # << >>
                  /\ r.next_allowed_time = last[1] + 30 * 60
                  /\ r.next_allowed_time = scan_history[r.client_ip][1] + 30 * 60
                  /\ r.message = strftime_time(r.next_allowed_time)
                  /\ r.current_time < r.next_allowed_time
            /\ ( /\ r.result # "Success"
                 /\ last # << >>
                 /\ r.current_time < last[1] + 30 * 60 )
                  => r.result = "RateLimited"

\* C4, the limit: a client's scan is recorded only if its previous recorded
\* scan is at least 30 minutes old.
C4_OnePerWindow ==
    \A th \in Threads :
        (At(th, "form_scan") /\ req'[th].pc = "done") =>
            LET last == last_success[req[th].client_ip] IN
            last = << >> \/ now - last[1] >= 30 * 60

\* C4: at most one form check-in of a client succeeds in any 30-minute window;
\* a second attempt inside the window is denied with RateLimited, reporting
\* the time of the first scan plus 30 minutes.
C4_RateLimit == []C4_Denied /\ [][C4_OnePerWindow]_vars

\* A form post was denied inside the window of an earlier scan.
C4_Witness ==
    \E th \in Threads :
        /\ Done(th) /\ req[th].handler = "form"
        /\ req[th].result = "RateLimited"
        /\ req[th].next_allowed_time = last_success[req[th].client_ip][1] + 30 * 60

C5_Released ==
    \A th \in Threads :
        ( /\ req[th].pc \notin {"idle", "done"}
          /\ req[th].handler = "form"
          /\ req'[th].pc = "done" ) =>
            LET r == req'[th]
                denied == denied_until[r.client_ip]
            IN  (denied # << >> /\ r.current_time >= denied[1]) =>
                  /\ r.result # "RateLimited"
                  /\ \/ r.result = "Success"
                     \/ /\ r.result = "InvalidInput"
                        /\ r.student_id = None \/ r.student_name = None
                     \/ /\ r.result = "InvalidToken"
                        /\ r.qr_id \notin DOMAIN valid_qr_codes'
                     \/ /\ r.result = "TokenExpired"
                        /\ r.checked_at > fromisoformat(r.qr_data.expiry)
                     \/ /\ r.result = "DuplicateCheckIn"
                        /\ CountFor(attendance_records'[r.today], r.student_id) >= 1

\* C5: once a client was denied with next_allowed_time t, its next form post
\* made at t or later is not denied by the rate limiter, and it succeeds
\* unless a field is missing, the token is unknown or expired, or the student
\* is already recorded that day.
C5_RateLimitRelease == [][C5_Released]_vars

\* A form post made exactly at the reported next_allowed_time succeeded.
C5_Witness ==
    \E th \in Threads :
        /\ At(th, "form_scan")
        /\ denied_until[req[th].client_ip] = <<req[th].current_time>>

\* C6: overlapping form posts of one client never both pass the capacity
\* check: scan_history never holds two of its scan times inside one window.
C6_OneScanInWindow ==
    \A c \in DOMAIN scan_history :
        Cardinality({i \in 1..Len(scan_history[c]) :
                        scan_history[c][i] > now - 30 * 60}) <= 1

FieldsPresent(r) ==
    /\ r.student_id # None
    /\ r.student_name # None
    /\ r.method # None

\* The request has gone past the required fields, the rate limiter and (on
\* /api/attend) the duplicate check, and was answered.
ReachedTokenCheck(th) ==
    /\ Done(th) /\ CheckIn(th)
    /\ "student_id" \in DOMAIN req[th]
    /\ FieldsPresent(req[th])
    /\ req[th].result \notin {"RateLimited", "DuplicateCheckIn"}

TokenNotHeld(r) ==
    /\ r.qr_id \notin DOMAIN valid_qr_codes
    /\ r.result # "TokenExpired"

\* C7: a QR check-in whose qr id is absent or not held in valid_qr_codes ends
\* with InvalidToken on both entry points (and so appends no record).
C7_InvalidToken ==
    \A th \in Threads :
        (ReachedTokenCheck(th) /\ req[th].method = "qr" /\ TokenNotHeld(req[th]))
            => req[th].result = "InvalidToken"

\* C7 as amended: it ends with InvalidToken on /attend, and on /api/attend when
\* the qr id is present; on /api/attend a QR check-in without a qr id skips
\* the token validation and is recorded.
C7_InvalidTokenAmended ==
    \A th \in Threads :
        LET r == req[th] IN
        (ReachedTokenCheck(th) /\ r.method = "qr" /\ TokenNotHeld(r)) =>
            IF r.handler = "api" /\ r.qr_id = None
            THEN /\ r.result = "Success"
                 /\ CountFor(attendance_records[r.today], r.student_id) = 1
            ELSE /\ r.result = "InvalidToken"
                 /\ "record" \notin DOMAIN r

\* An unknown qr id was refused on /api/attend.
C7_Witness ==
    \E th \in Threads :
        /\ ReachedTokenCheck(th)
        /\ req[th].handler = "api" /\ req[th].method = "qr"
        /\ req[th].qr_id = Bogus
        /\ req[th].result = "InvalidToken"

Manual(r) == r.handler = "api" /\ r.method # "qr"

\* C8, the result: a check-in on /api/attend whose method is not "qr" never
\* ends with InvalidToken or TokenExpired, and never enters the QR validation.
C8_NoTokenFailure ==
    \A th \in Threads :
        Manual(req[th]) =>
            /\ req[th].pc \notin {"api_fetch", "api_del"}
            /\ Done(th) => req[th].result \notin {"InvalidToken", "TokenExpired"}

\* C8, the frame: no step of such a request changes valid_qr_codes.
C8_StoreUntouched ==
    \A th \in Threads :
        (req'[th] # req[th] /\ (Manual(req[th]) \/ Manual(req'[th])))
            => valid_qr_codes' = valid_qr_codes

\* C8: a check-in whose method is not "qr" never fails with InvalidToken or
\* TokenExpired, whatever qr id it carries, and leaves valid_qr_codes as it is.
C8_ManualBypass == []C8_NoTokenFailure /\ [][C8_StoreUntouched]_vars

\* A manual check-in that presented an expired token was recorded, and the
\* token is still stored.
C8_Witness ==
    \E th \in Threads :
        /\ Done(th) /\ Manual(req[th])
        /\ req[th].result = "Success"
        /\ req[th].qr_id \in DOMAIN valid_qr_codes
        /\ fromisoformat(valid_qr_codes[req[th].qr_id].expiry) < now

\* The student of the answered request had a record in the list of the day on
\* which the request was made and answered, and the request added none.
AlreadyRecorded(th) ==
    LET r == req[th]
        day == get_current_date(now)
    IN  /\ Done(th) /\ CheckIn(th)
        /\ "student_id" \in DOMAIN r
        /\ FieldsPresent(r)
        /\ r.result \notin {"RateLimited", "Success"}
        /\ IF r.handler = "api"
           THEN r.today = day
           ELSE get_current_date(r.current_time) = day
        /\ day \in DOMAIN attendance_records
        /\ CountFor(attendance_records[day], r.student_id) >= 1

\* C9: on both entry points a check-in of a student already recorded that day
\* ends with DuplicateCheckIn whatever method and token it carries.
C9_DuplicateFirst ==
    \A th \in Threads :
        AlreadyRecorded(th) => req[th].result = "DuplicateCheckIn"

\* C10: however check-ins presenting one expired qr id overlap, none of them
\* ends in a server error raised by valid_qr_codes.
C10_NoTokenFault ==
    \A th \in Threads :
        (Done(th) /\ CheckIn(th)) =>
            ~(req[th].result = "ServerError" /\ req[th].exc = "KeyError")

Range(lst) == {lst[i] : i \in 1..Len(lst)}

\* C11, the writes: a scan time enters a client's list only by the last step
\* of a form check-in that has appended its attendance record and ends with
\* Success; any other change of the list is check_scan_limit dropping times
\* that are 30 minutes old or older.
C11_OnlySuccessAppends ==
    \A c \in DOMAIN scan_history' :
        LET old == DictGet(scan_history, c, << >>)
            new == scan_history'[c]
        IN  new # old =>
              \/ \E th \in Threads :
                    /\ At(th, "form_scan") /\ req[th].client_ip = c
                    /\ "record" \in DOMAIN req[th]
                    /\ req[th].record \in Range(attendance_records[req[th].today])
                    /\ req'[th].pc = "done" /\ req'[th].result = "Success"
                    /\ new = Append(old, now)
              \/ \E th \in Threads :
                    /\ At(th, "csl_write") /\ req[th].client_ip = c
                    /\ Len(new) < Len(old)
                    /\ Range(new) \subseteq Range(old)
                    /\ \A e \in Range(old) \ Range(new) :
                          e <= req[th].current_time - 30 * 60

\* C11, the consequence: a form post or a quota query is told that the client
\* cannot scan only while a successful form check-in of that client is less
\* than 30 minutes old.
C11_DenialsFromSuccess ==
    \A th \in Threads :
        LET r == req[th] IN
        ( /\ Done(th) /\ r.handler \in {"form", "quota"}
          /\ "can_scan" \in DOMAIN r /\ ~r.can_scan ) =>
            LET last == last_success[r.client_ip] IN
            /\ last # << >>
            /\ r.current_time < last[1] + 30 * 60

\* C11: only a fully successful form check-in appends a scan time; a failed
\* one and a quota query append nothing (they only prune), so they never make
\* a later attempt of the client be denied.
C11_ScanOnlyOnSuccess ==
    []C11_DenialsFromSuccess /\ [][C11_OnlySuccessAppends]_vars

\* A form check-in that passed the rate limiter was refused as a duplicate and
\* the client's list is still empty.
C11_Witness ==
    \E th \in Threads :
        /\ Done(th) /\ req[th].handler = "form"
        /\ req[th].result = "DuplicateCheckIn"
        /\ scan_history[req[th].client_ip] = << >>

\* C12, the ledger: a step keeps every day's list, or appends one record at
\* its end; a day's list is created empty and no list is ever removed.
C12_AppendOnly ==
    /\ DOMAIN attendance_records \subseteq DOMAIN attendance_records'
    /\ \A d \in DOMAIN attendance_records' :
          LET new == attendance_records'[d] IN
          IF d \in DOMAIN attendance_records
          THEN LET old == attendance_records[d] IN
               \/ new = old
               \/ /\ Len(new) = Len(old) + 1
                  /\ SubSeq(new, 1, Len(old)) = old
          ELSE new = << >>

\* C12, the listing: GET /api/attendance returns the list stored for the
\* current date as it stands, the empty list if there is none, and changes
\* none of the three dictionaries.
C12_ListReads ==
    \A th \in Threads :
        (At(th, "idle") /\ req'[th].handler = "list") =>
            LET today == get_current_date(now) IN
            /\ req'[th].result = "Listed"
            /\ IF today \in DOMAIN attendance_records
               THEN req'[th].records = attendance_records[today]
               ELSE req'[th].records = << >>
            /\ attendance_records' = attendance_records
            /\ valid_qr_codes' = valid_qr_codes
            /\ scan_history' = scan_history

\* C12: within a day the ledger only grows at its end, and ListAttendance
\* returns the day's records in insertion order (the empty sequence when the
\* day has no list) without changing any state.
C12_LedgerAppendOnly == [][C12_AppendOnly /\ C12_ListReads]_vars

\* The listing returned two records, the second one appended after the first.
C12_Witness ==
    \E th \in Threads :
        /\ Done(th) /\ req[th].handler = "list"
        /\ Len(req[th].records) = 2
        /\ req[th].records[1].studentId # req[th].records[2].studentId

InLimiter(r) ==
    r.pc \in {"csl_in", "csl_init", "csl_read", "csl_write", "csl_len", "csl_deny"}

\* C13, the result: a form post that check_scan_limit refuses ends with
\* RateLimited without having read the form fields, the token or the ledger.
C13_DeniedEarly ==
    \A th \in Threads :
        LET r == req[th] IN
        ( /\ Done(th) /\ r.handler = "form"
          /\ "can_scan" \in DOMAIN r /\ ~r.can_scan ) =>
            /\ r.result = "RateLimited"
            /\ {"student_id", "qr_data", "today", "record"} \cap DOMAIN r = {}

\* C13, the frame: no step of a form post up to and including the denial
\* changes attendance_records or valid_qr_codes.
C13_DeniedFrame ==
    \A th \in Threads :
        ( /\ req'[th] # req[th]
          /\ req'[th].handler = "form"
          /\ \/ At(th, "idle")
             \/ InLimiter(req[th]) ) =>
            /\ attendance_records' = attendance_records
            /\ valid_qr_codes' = valid_qr_codes

\* C13: a form post denied by the rate limiter ends with RateLimited and
\* leaves attendance_records and valid_qr_codes as they were, also when its
\* token is expired (it stays stored) or its student is already recorded.
C13_RateLimitedFirst == []C13_DeniedEarly /\ [][C13_DeniedFrame]_vars

\* A form post presenting an expired token was denied by the rate limiter and
\* the token is still stored.
C13_Witness ==
    \E th \in Threads :
        /\ Done(th) /\ req[th].handler = "form"
        /\ req[th].result = "RateLimited"
        /\ req[th].qr_id \in DOMAIN valid_qr_codes
        /\ IsExpired(valid_qr_codes[req[th].qr_id], req[th].current_time)

\* C14: on both entry points the required fields are checked before anything
\* else: a check-in that ends with another result than InvalidInput has had
\* its studentId and studentName (and, on /api/attend, its method) read and
\* found present; so a form post without them made inside the client's
\* 30-minute window ends with InvalidInput, not with RateLimited.
C14_InputFirst ==
    \A th \in Threads :
        LET r == req[th] IN
        (Done(th) /\ CheckIn(th) /\ r.result # "InvalidInput") =>
            /\ "student_id" \in DOMAIN r
            /\ FieldsPresent(r)

\* C15, the steps: a step leaves every stored token as it is, or removes the
\* one token that a QR check-in has just looked up and found expired; a token
\* is added only by issuance, under an id never stored before.
C15_TokenSteps ==
    /\ \A id \in DOMAIN valid_qr_codes :
          \/ /\ id \in DOMAIN valid_qr_codes'
             /\ valid_qr_codes'[id] = valid_qr_codes[id]
          \/ /\ id \notin DOMAIN valid_qr_codes'
             /\ \E th \in Threads :
                   /\ req[th].pc \in {"api_del", "form_del"}
                   /\ req[th].method = "qr" /\ req[th].qr_id = id
                   /\ fromisoformat(valid_qr_codes[id].expiry) < req[th].checked_at
                   /\ req'[th].pc = "done" /\ req'[th].result = "TokenExpired"
    /\ \A id \in DOMAIN valid_qr_codes' \ DOMAIN valid_qr_codes :
          \E th \in Threads :
              /\ At(th, "gen_store") /\ req[th].qr_id = id
              /\ valid_qr_codes'[id] = req'[th].qr_data

\* C15, the check-ins: a check-in recorded with a token leaves that token
\* stored exactly as it read it.
C15_NotConsumed ==
    \A th \in Threads :
        LET r == req[th] IN
        (Done(th) /\ CheckIn(th) /\ r.result = "Success" /\ "qr_data" \in DOMAIN r) =>
            /\ r.qr_id \in DOMAIN valid_qr_codes
            /\ valid_qr_codes[r.qr_id] = r.qr_data

\* C15: a stored token is never changed and is removed only by a check-in
\* that finds it expired; issuance, check-ins with an unexpired token, quota
\* queries and listings leave the stored tokens alone, so one token serves
\* several students until it expires.
C15_TokenLifecycle == []C15_NotConsumed /\ [][C15_TokenSteps]_vars

\* A second student was recorded with the token a first one had used.
C15_Witness ==
    \E th \in Threads :
        LET r == req[th] IN
        /\ Done(th) /\ CheckIn(th) /\ r.result = "Success"
        /\ "qr_data" \in DOMAIN r
        /\ Len(attendance_records[r.today]) = 2
        /\ \A i \in 1..2 : attendance_records[r.today][i].method = "qr"

\* C16: every stored token has expiry = timestamp + 30 minutes exactly, also
\* when the clock advances while generate_qr is running.
C16_ExactValidity ==
    \A id \in DOMAIN valid_qr_codes :
        fromisoformat(valid_qr_codes[id].expiry) =
            fromisoformat(valid_qr_codes[id].timestamp) + 30 * 60

Chronological(lst) == \A i, j \in 1..Len(lst) : i < j => lst[i] <= lst[j]

FreshAt(lst, t) == \A e \in Range(lst) : e > t - 30 * 60

\* C17, the accesses: right after check_scan_limit has rewritten a client's
\* list, and right after record_scan_attempt has appended to it, every time in
\* the list is later than the access's clock reading minus 30 minutes and the
\* times are in chronological order; check_scan_limit keeps exactly the times
\* that are that fresh, whether or not it then denies.
C17_Fresh ==
    \A th \in Threads :
        LET c == req[th].client_ip IN
        /\ (At(th, "csl_write") /\ req'[th] # req[th]) =>
              /\ FreshAt(scan_history'[c], req[th].current_time)
              /\ Chronological(scan_history'[c])
        /\ (At(th, "form_scan") /\ req'[th] # req[th]) =>
              /\ FreshAt(scan_history'[c], req'[th].scanned_at)
              /\ Chronological(scan_history'[c])

\* C17: after every access to a client's scan window, by check_scan_limit or
\* by record_scan_attempt, all its times are later than now - 30 minutes and
\* in chronological order: stale times are pruned on every read and before
\* every write.
C17_ScanWindowFresh == [][C17_Fresh]_vars

\* C18: however a quota query interleaves with check-ins of the same client,
\* its answer is consistent: can_scan is true exactly when remaining_scans is
\* 1 and exactly when reset_time is null; when can_scan is false,
\* remaining_scans is 0 and reset_time is the oldest stored scan time plus 30
\* minutes; the query never ends in a server error.
C18_QuotaConsistent ==
    \A th \in Threads :
        LET r == req[th] IN
        (Done(th) /\ r.handler = "quota") =>
            /\ r.result = "Quota"
            /\ r.can_scan <=> r.remaining_scans = 1
            /\ r.can_scan <=> r.reset_time = None
            /\ ~r.can_scan =>
                  /\ r.remaining_scans = 0
                  /\ r.reset_time = isoformat(r.next_allowed_time)

CalendarDay(t) == t \div (24 * 60 * 60)

\* C19, the partition: the day a handler works on is the calendar date of the
\* clock at the moment it asks for it, and a day's list is created or grows
\* only by a check-in working on that day.
C19_DayOfRecord ==
    /\ \A th \in Threads :
          ("today" \notin DOMAIN req[th] /\ "today" \in DOMAIN req'[th]) =>
              req'[th].today = CalendarDay(now)
    /\ \A d \in DOMAIN attendance_records' :
          ( \/ d \notin DOMAIN attendance_records
            \/ attendance_records'[d] # attendance_records[d] ) =>
              \E th \in Threads :
                  /\ req[th].pc \in {"api_mkpart", "form_mkpart",
                                      "api_append", "form_append"}
                  /\ req[th].today = d

\* C19, the results: a check-in is refused as a duplicate only if its student
\* has a record in the list of the day the check-in works on, whatever the
\* lists of other days hold; a recorded check-in has put its record at the end
\* of that day's list; a listing returns the current date's list only.
C19_OwnDayOnly ==
    \A th \in Threads :
        LET r == req[th] IN
        /\ (Done(th) /\ CheckIn(th) /\ r.result = "DuplicateCheckIn") =>
              /\ CountFor(attendance_records[r.today], r.student_id) >= 1
              /\ "record" \notin DOMAIN r
        /\ (Done(th) /\ CheckIn(th) /\ r.result = "Success") =>
              LET lst == attendance_records[r.today] IN
              /\ lst # << >> /\ lst[Len(lst)] = r.record
              /\ r.record.studentId = r.student_id
        /\ (Done(th) /\ r.handler = "list") =>
              r.records = IF CalendarDay(now) \in DOMAIN attendance_records
                          THEN attendance_records[CalendarDay(now)]
                          ELSE << >>

\* C19: duplicates are detected within the current calendar day only: a
\* student recorded on day D checks in successfully again on a later day,
\* each record goes to the list of the date on which its check-in was
\* handled, and a listing on the later day does not return the records of D.
C19_DayScoped == []C19_OwnDayOnly /\ [][C19_DayOfRecord]_vars

\* A student recorded on day 0 was recorded again on day 1.
C19_Witness ==
    \E th \in Threads :
        LET r == req[th] IN
        /\ Done(th) /\ CheckIn(th) /\ r.result = "Success"
        /\ r.today = 1
        /\ 0 \in DOMAIN attendance_records
        /\ CountFor(attendance_records[0], r.student_id) = 1
        /\ CountFor(attendance_records[1], r.student_id) = 1


====
